---- MODULE Spec2Model ----
(***************************************************************************)
(* filedb: one document per key, one file per key, optimistic concurrency. *)
(* The module models both variants held by src/filedb.go: the generic one  *)
(* (DB[D], lines 1-195, Update retries for ever) and the dynamic one (DB,  *)
(* lines 197-402, Update takes a retries count).  The variant is fixed in  *)
(* the initial state.                                                      *)
(*                                                                         *)
(* The file system is one directory (the root): a map from names to        *)
(* entries.  A name is a sequence of string pieces, so that a suffix test  *)
(* on a name is a suffix test on its pieces.                               *)
(***************************************************************************)
EXTENDS Integers, Sequences, FiniteSets, TLC

\* ------------------------------------------------------------------ bounds
NProcs == 2      \* concurrent callers (processes sharing the root)
MaxCalls == 2    \* calls each caller makes
MaxDoc == 1      \* documents given to Set are 1..MaxDoc
MaxRetries == 1  \* retries arguments are -1..MaxRetries
MaxRnd == 2      \* random suffixes os.CreateTemp draws from: 1..MaxRnd

Procs == 1..NProcs
Keys == {<<"k">>}
Rnd == 1..MaxRnd
SetDocs == {<<d>> : d \in 1..MaxDoc}
RetryArgs == (0 - 1)..MaxRetries

\* ------------------------------------------------------------------ values
\* A document is a pointer / an interface value: <<>> is nil, <<v>> holds v.
NilDoc == <<>>
NilErr == "nil"
ErrNotExist == "ErrNotExist"
ErrEOF == "EOF"
ErrIsDir == "EISDIR"
ErrConcurrentMod == "concurrent modification"

\* type dbEntry struct { version int; doc any }: each field with whether its
\* Go identifier starts with an upper-case letter (is exported).
dbEntryFields == {[name |-> "version", upper |-> FALSE], [name |-> "doc", upper |-> FALSE]}

\* dbEntry{}: the zero value.
ZeroEntry == [version |-> 0, doc |-> NilDoc]

dbEntry(version, doc) == [version |-> version, doc |-> doc]

\* encoding/json marshals and unmarshals the exported fields of a struct only.
Exported(n) == \E fld \in dbEntryFields : fld.name = n /\ fld.upper

\* json.NewEncoder(f).Encode(e): the bytes of the file, <<obj>>, one JSON object.
\* obj[n] is <<>> when the object has no member n and <<value>> when it has.
Encode(e) ==
  << [version |-> IF Exported("version") THEN <<e.version>> ELSE <<>>,
      doc     |-> IF Exported("doc") THEN <<e.doc>> ELSE <<>>] >>

\* json.NewDecoder(f).Decode(&e) on the bytes of a file: a zero-length file is
\* io.EOF; members that match no exported field are dropped.
Decode(bytes) ==
  IF bytes = <<>>
    THEN [err |-> ErrEOF, e |-> ZeroEntry]
    ELSE [err |-> NilErr,
          e |-> [version |-> IF Exported("version") /\ bytes[1].version # <<>>
                               THEN bytes[1].version[1] ELSE ZeroEntry.version,
                 doc     |-> IF Exported("doc") /\ bytes[1].doc # <<>>
                               THEN bytes[1].doc[1] ELSE ZeroEntry.doc]]

\* ------------------------------------------------------------------- paths
\* A key and a path under the root are sequences of pieces of text; the piece
\* "/" is the separator and the piece "." the dot.  Split cuts a path at its
\* separators into its elements.
RECURSIVE Split(_)
Split(s) ==
  IF s = <<>> THEN << <<>> >>
  ELSE LET rest == Split(Tail(s)) IN
       IF Head(s) = "/" THEN << <<>> >> \o rest
       ELSE << <<Head(s)>> \o Head(rest) >> \o Tail(rest)

RECURSIVE JoinSegs(_)
JoinSegs(segs) ==
  IF segs = <<>> THEN <<>>
  ELSE IF Len(segs) = 1 THEN segs[1]
  ELSE segs[1] \o <<"/">> \o JoinSegs(Tail(segs))

\* The elements filepath.Clean keeps: not the empty ones (of a doubled or a
\* final separator) and not the dot.  Keys with ".." elements are not drawn.
Kept(seg) == seg # <<>> /\ seg # <<".">>
NonEmpty(seg) == seg # <<>>

\* filepath.Join(root, p), relative to the root: the cleaned path.
Clean(s) == JoinSegs(SelectSeq(Split(s), Kept))

\* filepath.Dir(key), cleaned (<<>> is the root), and filepath.Base(key).
Dir(key) == LET segs == Split(key) IN
  JoinSegs(SelectSeq(SubSeq(segs, 1, Len(segs) - 1), Kept))
Base(key) == LET segs == SelectSeq(Split(key), NonEmpty) IN
  IF segs = <<>> THEN <<".">> ELSE segs[Len(segs)]

\* keyPath(root, key) = filepath.Join(root, filepath.ToSlash(key)).
keyPath(key) == Clean(key)

\* lockPath(root, key) = filepath.Join(root, filepath.ToSlash(key) + "...lock").
lockPath(key) == Clean(key \o <<"...lock">>)

\* The name os.CreateTemp makes in filepath.Join(root, filepath.Dir(key)) of
\* the pattern filepath.Base(key) + "...tmp.*": the star is replaced by the
\* random string r.
tmpName(key, r) ==
  (IF Dir(key) = <<>> THEN <<>> ELSE Dir(key) \o <<"/">>)
    \o Base(key) \o <<"...tmp", ".", ToString(r)>>

\* filepath.Join(root, ".filedb")
initPath == <<".filedb">>

\* strings.HasSuffix(name, suffix), suffix one piece
HasSuffix(name, suffix) == Len(name) >= 1 /\ name[Len(name)] = suffix

\* ------------------------------------------------------------- directories
File(bytes) == [isDir |-> FALSE, data |-> bytes]
Directory == [isDir |-> TRUE, data |-> <<>>]

Put(d, n, v) == [x \in (DOMAIN d) \cup {n} |-> IF x = n THEN v ELSE d[x]]
Del(d, n) == [x \in (DOMAIN d) \ {n} |-> d[x]]

\* db.get(key): os.Open, then Decode.  The file behind an open handle of a
\* key's path is never written again (entries are replaced by rename), so the
\* open and the decode are read in one step.
get(d, key) ==
  IF keyPath(key) \notin DOMAIN d
    THEN [err |-> ErrNotExist, e |-> ZeroEntry]
    ELSE IF d[keyPath(key)].isDir
      THEN [err |-> ErrIsDir, e |-> ZeroEntry]
      ELSE Decode(d[keyPath(key)].data)

\* The keys List("") returns of a directory.
ListKeys(d) ==
  {n \in DOMAIN d : ~(d[n].isDir \/ HasSuffix(n, "...tmp") \/ HasSuffix(n, "...lock"))}

\* --------------------------------------------------------------- the calls
WriteOps == {"Update", "Set", "SetWithRetry", "Delete"}

\* The apply function of a call: Update is given doc -> doc+1 (an absent
\* document counts as 0), Set the constant document, Delete nil.
apply(c, existing) ==
  IF c.op = "Update"
    THEN <<(IF existing = NilDoc THEN 0 ELSE existing[1]) + 1>>
    ELSE IF c.op = "Delete" THEN NilDoc ELSE c.doc

NoCall == [op |-> "none", key |-> <<"k">>, doc |-> NilDoc, retries |-> 0]

\* The calls a caller can make.  In the generic variant Update has no retries
\* argument and loops for ever (modelled as retries = -1), and there is no
\* SetWithRetry; in the dynamic variant Set and Delete pass retries = 0.
CallsOf(v) ==
  IF v = "generic"
    THEN {[op |-> o, key |-> k, doc |-> NilDoc, retries |-> 0 - 1] :
             o \in {"Update", "Delete"}, k \in Keys}
         \cup {[op |-> "Set", key |-> k, doc |-> d, retries |-> 0 - 1] :
             k \in Keys, d \in SetDocs}
         \cup {[op |-> o, key |-> k, doc |-> NilDoc, retries |-> 0] :
             o \in {"Get", "List"}, k \in Keys}
    ELSE {[op |-> "Update", key |-> k, doc |-> NilDoc, retries |-> r] :
             k \in Keys, r \in RetryArgs}
         \cup {[op |-> "SetWithRetry", key |-> k, doc |-> d, retries |-> r] :
             k \in Keys, d \in SetDocs, r \in RetryArgs}
         \cup {[op |-> "Set", key |-> k, doc |-> d, retries |-> 0] :
             k \in Keys, d \in SetDocs}
         \cup {[op |-> o, key |-> k, doc |-> NilDoc, retries |-> 0] :
             o \in {"Delete", "Get", "List"}, k \in Keys}

\* ------------------------------------------------------------------- state
VARIABLES
  variant,  \* "generic" or "dynamic": which of the two implementations runs
  dir,      \* the root directory: name -> entry
  held,     \* the lock paths held, with their holders: {<<path, p>>}
  st,       \* per caller: its position and the locals of Update / Get / List
  meant,    \* history: name of a file -> the dbEntry that was encoded into it
  log,      \* history: the renames and removals that changed a key's file
  gh        \* history per caller: counters and observations of its last call

vars == <<variant, dir, held, st, meant, log, gh>>

NoResult == [doc |-> NilDoc, err |-> NilErr, keys |-> {}]

\* db: the caller holds a DB that its Open returned (where Open is modelled).
InitSt ==
  [pc |-> "idle", call |-> NoCall, i |-> 0, old |-> ZeroEntry, newDoc |-> NilDoc,
   neww |-> ZeroEntry, f |-> <<>>, h |-> <<>>, ret |-> NoResult, result |-> NoResult, ncalls |-> 0,
   db |-> FALSE]

InitGh ==
  [attempts |-> 0, conflicts |-> 0, readAt |-> 0, alone |-> TRUE, seen |-> {}]

\* The state after Open(root) on an empty directory: the marker exists.
Init ==
  /\ variant \in {"generic", "dynamic"}
  /\ dir = [n \in {initPath} |-> Directory]
  /\ held = {}
  /\ st = [p \in Procs |-> InitSt]
  /\ meant = [n \in {} |-> ZeroEntry]
  /\ log = <<>>
  /\ gh = [p \in Procs |-> InitGh]

\* The document the protocol means the key to hold (nil when it has no file).
MeantDoc(m, key) == IF keyPath(key) \in DOMAIN m THEN m[keyPath(key)].doc ELSE NilDoc

\* A caller is inside a writing call on the key.
Writing(p, key) ==
  st[p].pc # "idle" /\ st[p].call.op \in WriteOps /\ st[p].call.key = key

\* History kept when a call starts: a writer on the key ends the solitude of
\* every other caller whose last call is on that key.
GhStart(p, c) ==
  [q \in Procs |->
     IF q = p
       THEN [attempts |-> 0, conflicts |-> 0, readAt |-> Len(log), seen |-> {},
             alone |-> \A r \in Procs \ {p} : ~Writing(r, c.key)]
       ELSE IF c.op \in WriteOps /\ st[q].call.key = c.key
         THEN [gh[q] EXCEPT !.alone = FALSE]
         ELSE gh[q]]

\* History kept when the key's file changes: every Get in flight on the key
\* may see the new document.
GhSeen(g, key, doc) ==
  [q \in Procs |->
     IF st[q].pc = "getdecode" /\ st[q].call.key = key
       THEN [g[q] EXCEPT !.seen = @ \cup {doc}]
       ELSE g[q]]

\* A caller starts one of the calls of the variant.
StartCall(p) ==
  /\ st[p].pc = "idle"
  /\ st[p].ncalls < MaxCalls
  /\ \E c \in CallsOf(variant) :
       /\ st' = [st EXCEPT ![p] = [InitSt EXCEPT
                   !.call = c, !.ncalls = st[p].ncalls,
                   !.pc = IF c.op = "Get" THEN "getopen"
                          ELSE IF c.op = "List" THEN "list" ELSE "loop"]]
       /\ gh' = GhStart(p, c)
  /\ UNCHANGED <<variant, dir, held, meant, log>>

\* The call returns (doc, err) to its caller.
Return(p, doc, err, keys) ==
  st' = [st EXCEPT ![p] = [@ EXCEPT
           !.pc = "idle", !.ncalls = @ + 1,
           !.result = [doc |-> doc, err |-> err, keys |-> keys]]]

\* ------------------------------------------------------------------ Update
\* for i := 0; retries < 0 || i < retries; i++ { ... }; return nil, ErrConcurrentMod
\* (the generic variant's for { ... } is the case retries < 0).
LoopTest(p) ==
  /\ st[p].pc = "loop"
  /\ IF st[p].call.retries < 0 \/ st[p].i < st[p].call.retries
       THEN /\ st' = [st EXCEPT ![p] = [@ EXCEPT !.pc = "read"]]
            /\ gh' = [gh EXCEPT ![p] = [@ EXCEPT !.attempts = @ + 1]]
       ELSE /\ Return(p, NilDoc, ErrConcurrentMod, {})
            /\ UNCHANGED gh
  /\ UNCHANGED <<variant, dir, held, meant, log>>

\* old, err := db.get(key): an error other than not-exist ends the attempt.
Read(p) ==
  /\ st[p].pc = "read"
  /\ LET g == get(dir, st[p].call.key) IN
       st' = [st EXCEPT ![p] = [@ EXCEPT
                !.old = g.e,
                !.ret = IF g.err \in {NilErr, ErrNotExist} THEN @
                        ELSE [doc |-> NilDoc, err |-> g.err, keys |-> {}],
                !.pc = IF g.err \in {NilErr, ErrNotExist} THEN "apply" ELSE "doret"]]
  /\ gh' = [gh EXCEPT ![p] = [@ EXCEPT !.readAt = Len(log)]]
  /\ UNCHANGED <<variant, dir, held, meant, log>>

\* newDoc, err := apply(old.doc); a nil newDoc asks for the removal.
Apply(p) ==
  /\ st[p].pc = "apply"
  /\ LET nd == apply(st[p].call, st[p].old.doc) IN
       st' = [st EXCEPT ![p] = [@ EXCEPT
                !.newDoc = nd,
                !.pc = IF nd = NilDoc THEN "remove" ELSE "tmpfile"]]
  /\ UNCHANGED <<variant, dir, held, meant, log, gh>>

\* One line of the history: what a rename or a removal did to the key's file.
LogEntry(p, kind, d2) ==
  LET key == st[p].call.key IN
  [kind |-> kind, proc |-> p, key |-> key, readAt |-> gh[p].readAt,
   base |-> st[p].old.version,
   staged |-> IF kind = "commit" THEN st[p].old.version + 1 ELSE 0,
   before |-> get(dir, key).e.version, after |-> get(d2, key).e.version]

\* os.Remove(keyPath(db.root, key)), taken without the lock; a missing file is
\* no error.  The attempt returns (nil, nil).
Remove(p) ==
  /\ st[p].pc = "remove"
  /\ LET key == st[p].call.key
         d2 == Del(dir, keyPath(key))
     IN IF keyPath(key) \in DOMAIN dir /\ ~dir[keyPath(key)].isDir
          THEN /\ dir' = d2
               /\ meant' = Del(meant, keyPath(key))
               /\ log' = Append(log, LogEntry(p, "delete", d2))
               /\ gh' = GhSeen(gh, key, NilDoc)
          ELSE UNCHANGED <<dir, meant, log, gh>>
  /\ st' = [st EXCEPT ![p] = [@ EXCEPT !.ret = NoResult, !.pc = "doret"]]
  /\ UNCHANGED <<variant, held>>

\* f, err := tmpFile(db.root, key): os.CreateTemp creates, with O_EXCL, an empty
\* file of a name not in the directory.  The random string is drawn from 2^32
\* values; the draw of a name another attempt still refers to is not modelled.
tmpFile(p) ==
  /\ st[p].pc = "tmpfile"
  /\ \E r \in Rnd :
       LET n == tmpName(st[p].call.key, r) IN
       /\ n \notin DOMAIN dir
       /\ \A q \in Procs : st[q].f # n
       /\ dir' = Put(dir, n, File(<<>>))
       /\ st' = [st EXCEPT ![p] = [@ EXCEPT !.f = n, !.pc = "encode"]]
  /\ UNCHANGED <<variant, held, meant, log, gh>>

\* json.NewEncoder(f).Encode(dbEntry{old.version + 1, newDoc}); f.Close()
Stage(p) ==
  /\ st[p].pc = "encode"
  /\ LET e == dbEntry(st[p].old.version + 1, st[p].newDoc) IN
       /\ dir' = Put(dir, st[p].f, File(Encode(e)))
       /\ meant' = Put(meant, st[p].f, e)
  /\ st' = [st EXCEPT ![p] = [@ EXCEPT !.pc = "lock"]]
  /\ UNCHANGED <<variant, held, log, gh>>

\* A lock that does not wait for its holder.
Lock_nowait(p) ==
  /\ st[p].pc = "lock"
  /\ LET lp == lockPath(st[p].call.key) IN
       /\ held' = held \cup {<<lp, p>>}
       /\ dir' = IF lp \in DOMAIN dir THEN dir ELSE Put(dir, lp, File(<<>>))
  /\ st' = [st EXCEPT ![p] = [@ EXCEPT !.pc = "reread"]]
  /\ UNCHANGED <<variant, meant, log, gh>>

\* unlock, err := lockedfile.MutexAt(lockPath(db.root, key)).Lock(): blocks
\* while another caller holds the lock; creates the lock file.
Lock(p) ==
  /\ st[p].pc = "lock"
  /\ LET lp == lockPath(st[p].call.key) IN
       /\ \A q \in Procs : <<lp, q>> \notin held
       /\ held' = held \cup {<<lp, p>>}
       /\ dir' = IF lp \in DOMAIN dir THEN dir ELSE Put(dir, lp, File(<<>>))
  /\ st' = [st EXCEPT ![p] = [@ EXCEPT !.pc = "reread"]]
  /\ UNCHANGED <<variant, meant, log, gh>>

\* neww, err := db.get(key), under the lock.
ReRead(p) ==
  /\ st[p].pc = "reread"
  /\ LET g == get(dir, st[p].call.key) IN
       st' = [st EXCEPT ![p] = [@ EXCEPT
                !.neww = g.e,
                !.ret = IF g.err \in {NilErr, ErrNotExist} THEN @
                        ELSE [doc |-> NilDoc, err |-> g.err, keys |-> {}],
                !.pc = IF g.err \in {NilErr, ErrNotExist} THEN "check" ELSE "unlock"]]
  /\ UNCHANGED <<variant, dir, held, meant, log, gh>>

\* if neww.version != old.version { return nil, ErrConcurrentMod }
\* return newDoc, os.Rename(f.Name(), keyPath(db.root, key))
CheckRename(p) ==
  /\ st[p].pc = "check"
  /\ LET key == st[p].call.key
         d2 == Del(Put(dir, keyPath(key), dir[st[p].f]), st[p].f)
     IN IF st[p].neww.version # st[p].old.version
          THEN /\ st' = [st EXCEPT ![p] = [@ EXCEPT !.pc = "unlock",
                          !.ret = [doc |-> NilDoc, err |-> ErrConcurrentMod, keys |-> {}]]]
               /\ gh' = [gh EXCEPT ![p] = [@ EXCEPT !.conflicts = @ + 1]]
               /\ UNCHANGED <<dir, meant, log>>
          ELSE /\ dir' = d2
               /\ meant' = Del(Put(meant, keyPath(key), meant[st[p].f]), st[p].f)
               /\ log' = Append(log, LogEntry(p, "commit", d2))
               /\ gh' = GhSeen(gh, key, st[p].newDoc)
               /\ st' = [st EXCEPT ![p] = [@ EXCEPT !.pc = "unlock",
                          !.ret = [doc |-> st[p].newDoc, err |-> NilErr, keys |-> {}]]]
  /\ UNCHANGED <<variant, held>>

\* An exit that leaves the lock held.
Unlock_kept(p) ==
  /\ st[p].pc = "unlock"
  /\ st' = [st EXCEPT ![p] = [@ EXCEPT !.pc = "rmtmp"]]
  /\ UNCHANGED <<variant, dir, held, meant, log, gh>>

\* defer unlock()
Unlock(p) ==
  /\ st[p].pc = "unlock"
  /\ held' = held \ {<<lockPath(st[p].call.key), p>>}
  /\ st' = [st EXCEPT ![p] = [@ EXCEPT !.pc = "rmtmp"]]
  /\ UNCHANGED <<variant, dir, meant, log, gh>>

\* An exit that closes the temp file and leaves it in the directory.
RemoveTmp_kept(p) ==
  /\ st[p].pc = "rmtmp"
  /\ st' = [st EXCEPT ![p] = [@ EXCEPT !.f = <<>>, !.pc = "doret"]]
  /\ UNCHANGED <<variant, dir, held, meant, log, gh>>

\* defer os.Remove(f.Name()); defer f.Close(): the name is gone already when
\* the rename took it.
RemoveTmp(p) ==
  /\ st[p].pc = "rmtmp"
  /\ dir' = IF st[p].f \in DOMAIN dir THEN Del(dir, st[p].f) ELSE dir
  /\ meant' = IF st[p].f \in DOMAIN meant THEN Del(meant, st[p].f) ELSE meant
  /\ st' = [st EXCEPT ![p] = [@ EXCEPT !.f = <<>>, !.pc = "doret"]]
  /\ UNCHANGED <<variant, held, log, gh>>

\* doc, err := do(); if err == nil || err != ErrConcurrentMod { return doc, err }
\* time.Sleep(...); i++
DoReturn(p) ==
  /\ st[p].pc = "doret"
  /\ IF st[p].ret.err # ErrConcurrentMod
       THEN Return(p, st[p].ret.doc, st[p].ret.err, {})
       ELSE st' = [st EXCEPT ![p] = [@ EXCEPT !.i = @ + 1, !.pc = "loop"]]
  /\ UNCHANGED <<variant, dir, held, meant, log, gh>>

\* --------------------------------------------------------------- Get, List
\* e, err := db.get(key): os.Open(keyPath(db.root, key)).  The handle h is held
\* as <<the entry it refers to>>, and as <<>> when the open failed with not-exist.
GetOpen(p) ==
  /\ st[p].pc = "getopen"
  /\ LET key == st[p].call.key IN
       /\ st' = [st EXCEPT ![p] = [@ EXCEPT !.pc = "getdecode",
                   !.h = IF keyPath(key) \in DOMAIN dir THEN <<dir[keyPath(key)]>> ELSE <<>>]]
       /\ gh' = [gh EXCEPT ![p] = [@ EXCEPT !.seen = {MeantDoc(meant, key)}]]
  /\ UNCHANGED <<variant, dir, held, meant, log>>

\* Get's mapping of the outcome of db.get: not-exist is (nil, nil), another
\* error is (nil, err), else (e.doc, nil).
GetResult(g) ==
  IF g.err = ErrNotExist THEN [doc |-> NilDoc, err |-> NilErr]
  ELSE IF g.err # NilErr THEN [doc |-> NilDoc, err |-> g.err]
  ELSE [doc |-> g.e.doc, err |-> NilErr]

\* Get(key) on the directory d, run with no step of another caller in between.
Get(d, key) == GetResult(get(d, key))

\* json.NewDecoder(f).Decode(&e) on the handle, and Get's return.
GetDecode(p) ==
  /\ st[p].pc = "getdecode"
  /\ LET g == IF st[p].h = <<>> THEN [err |-> ErrNotExist, e |-> ZeroEntry]
              ELSE IF st[p].h[1].isDir THEN [err |-> ErrIsDir, e |-> ZeroEntry]
              ELSE Decode(st[p].h[1].data)
     IN Return(p, GetResult(g).doc, GetResult(g).err, {})
  /\ UNCHANGED <<variant, dir, held, meant, log, gh>>

\* List(""): os.ReadDir(root), then the filter on each entry.
List(p) ==
  /\ st[p].pc = "list"
  /\ Return(p, NilDoc, NilErr, ListKeys(dir))
  /\ UNCHANGED <<variant, dir, held, meant, log, gh>>

\* ------------------------------------------------------------------- specs
Next ==
  \E p \in Procs :
    \/ StartCall(p)
    \/ LoopTest(p)
    \/ Read(p)
    \/ Apply(p)
    \/ Remove(p)
    \/ tmpFile(p)
    \/ Stage(p)
    \/ Lock(p)
    \/ ReRead(p)
    \/ CheckRename(p)
    \/ Unlock(p)
    \/ RemoveTmp(p)
    \/ DoReturn(p)
    \/ GetOpen(p)
    \/ GetDecode(p)
    \/ List(p)

Spec == Init /\ [][Next]_vars

\* The specification of M = NProcs callers that each run one Update(k, doc ->
\* doc+1) with unbounded retries, on a key whose document is 0: the state a
\* Set(k, 0) of the generic variant (or a SetWithRetry(k, 0, 1) of the dynamic
\* one) leaves.
IncCall == [op |-> "Update", key |-> <<"k">>, doc |-> NilDoc, retries |-> 0 - 1]

InitInc ==
  /\ variant \in {"generic", "dynamic"}
  /\ dir = [n \in {initPath, keyPath(<<"k">>), lockPath(<<"k">>)} |->
             IF n = initPath THEN Directory
             ELSE IF n = keyPath(<<"k">>) THEN File(Encode(dbEntry(1, <<0>>)))
             ELSE File(<<>>)]
  /\ held = {}
  /\ st = [p \in Procs |-> [InitSt EXCEPT !.call = IncCall, !.pc = "loop"]]
  /\ meant = [n \in {keyPath(<<"k">>)} |-> dbEntry(1, <<0>>)]
  /\ log = <<>>
  /\ gh = [p \in Procs |-> InitGh]

NextInc ==
  \E p \in Procs :
    \/ LoopTest(p)
    \/ Read(p)
    \/ Apply(p)
    \/ tmpFile(p)
    \/ Stage(p)
    \/ Lock(p)
    \/ ReRead(p)
    \/ CheckRename(p)
    \/ Unlock(p)
    \/ RemoveTmp(p)
    \/ DoReturn(p)

SpecInc == InitInc /\ [][NextInc]_vars

\* One step of the Update of caller p.
UpdateStep(p) ==
  \/ LoopTest(p)
  \/ Read(p)
  \/ Apply(p)
  \/ tmpFile(p)
  \/ Stage(p)
  \/ Lock(p)
  \/ ReRead(p)
  \/ CheckRename(p)
  \/ Unlock(p)
  \/ RemoveTmp(p)
  \/ DoReturn(p)

\* SpecInc with every caller scheduled again and again: a caller whose next
\* step stays possible takes it (the goroutine or process runs; the holder of
\* the lock reaches its deferred unlock; the sleep between retries ends).
SpecIncFair == SpecInc /\ \A p \in Procs : WF_vars(UpdateStep(p))

\* ------------------------------------------------------ failing operations
\* The errors an operation of an attempt can end with, besides those the model
\* of the directory produces itself (not-exist, is-a-directory, EOF).
ErrApply == "apply error"
ErrIO == "io error"

\* The errors the caller's apply function can return.  ErrConcurrentMod is an
\* exported variable of the dynamic variant, so an apply function can return
\* it (one that runs a nested Set or Update and passes its error on does); the
\* generic variant makes its errConcurrentMod inside each Update call, out of
\* the reach of apply.  An apply function returns it in the first MaxRetries
\* attempts of a call at most, which keeps the loop of an unbounded call finite.
ApplyErrs(v) == IF v = "dynamic" THEN {ErrApply, ErrConcurrentMod} ELSE {ErrApply}

\* newDoc, err := apply(old.doc); if err != nil { return nil, err }
ApplyFails(p) ==
  /\ st[p].pc = "apply"
  /\ \E e \in ApplyErrs(variant) :
       /\ e = ErrConcurrentMod => gh[p].attempts <= MaxRetries
       /\ st' = [st EXCEPT ![p] = [@ EXCEPT !.pc = "doret",
                !.ret = [doc |-> NilDoc, err |-> e, keys |-> {}]]]
  /\ UNCHANGED <<variant, dir, held, meant, log, gh>>

\* old, err := db.get(key) fails with an error that is not not-exist (the file
\* cannot be opened or decoded): return nil, err.
ReadFails(p) ==
  /\ st[p].pc = "read"
  /\ st' = [st EXCEPT ![p] = [@ EXCEPT !.pc = "doret",
               !.ret = [doc |-> NilDoc, err |-> ErrIO, keys |-> {}]]]
  /\ gh' = [gh EXCEPT ![p] = [@ EXCEPT !.readAt = Len(log)]]
  /\ UNCHANGED <<variant, dir, held, meant, log>>

\* neww, err := db.get(key) fails under the lock: return nil, err through the
\* deferred unlock.
ReReadFails(p) ==
  /\ st[p].pc = "reread"
  /\ st' = [st EXCEPT ![p] = [@ EXCEPT !.pc = "unlock",
               !.ret = [doc |-> NilDoc, err |-> ErrIO, keys |-> {}]]]
  /\ UNCHANGED <<variant, dir, held, meant, log, gh>>

\* if err := os.Remove(...); err != nil && !errors.Is(err, os.ErrNotExist)
\*   { return nil, fmt.Errorf("failed to remove key: %w", err) }
RemoveFails(p) ==
  /\ st[p].pc = "remove"
  /\ st' = [st EXCEPT ![p] = [@ EXCEPT !.pc = "doret",
               !.ret = [doc |-> NilDoc, err |-> ErrIO, keys |-> {}]]]
  /\ UNCHANGED <<variant, dir, held, meant, log, gh>>

\* f, err := tmpFile(db.root, key); if err != nil { return nil, ... }: no file
\* was created, no defer is registered yet.
tmpFileFails(p) ==
  /\ st[p].pc = "tmpfile"
  /\ st' = [st EXCEPT ![p] = [@ EXCEPT !.pc = "doret",
               !.ret = [doc |-> NilDoc, err |-> ErrIO, keys |-> {}]]]
  /\ UNCHANGED <<variant, dir, held, meant, log, gh>>

\* Encode or f.Close fails: return nil, err with the two defers (os.Remove of
\* the temp file, f.Close) registered and the lock not taken.
StageFails(p) ==
  /\ st[p].pc = "encode"
  /\ st' = [st EXCEPT ![p] = [@ EXCEPT !.pc = "rmtmp",
               !.ret = [doc |-> NilDoc, err |-> ErrIO, keys |-> {}]]]
  /\ UNCHANGED <<variant, dir, held, meant, log, gh>>

\* lockedfile.MutexAt(...).Lock() fails: return nil, err; unlock is not
\* deferred, the temp file's removal is.
LockFails(p) ==
  /\ st[p].pc = "lock"
  /\ st' = [st EXCEPT ![p] = [@ EXCEPT !.pc = "rmtmp",
               !.ret = [doc |-> NilDoc, err |-> ErrIO, keys |-> {}]]]
  /\ UNCHANGED <<variant, dir, held, meant, log, gh>>

\* A rename that reports an error after it has replaced the entry.
RenameFails_moved(p) ==
  /\ st[p].pc = "check"
  /\ st[p].neww.version = st[p].old.version
  /\ LET key == st[p].call.key
         d2 == Del(Put(dir, keyPath(key), dir[st[p].f]), st[p].f)
     IN /\ dir' = d2
        /\ meant' = Del(Put(meant, keyPath(key), meant[st[p].f]), st[p].f)
        /\ log' = Append(log, LogEntry(p, "commit", d2))
  /\ st' = [st EXCEPT ![p] = [@ EXCEPT !.pc = "unlock",
               !.ret = [doc |-> st[p].newDoc, err |-> ErrIO, keys |-> {}]]]
  /\ UNCHANGED <<variant, held, gh>>

\* return newDoc, os.Rename(...) when the rename fails: the versions were
\* equal, the directory is as it was, and the attempt returns newDoc together
\* with the error of the rename.
RenameFails(p) ==
  /\ st[p].pc = "check"
  /\ st[p].neww.version = st[p].old.version
  /\ st' = [st EXCEPT ![p] = [@ EXCEPT !.pc = "unlock",
               !.ret = [doc |-> st[p].newDoc, err |-> ErrIO, keys |-> {}]]]
  /\ UNCHANGED <<variant, dir, held, meant, log, gh>>

\* A caller starts its one call, an Update(k, doc -> doc+1) or a Delete.
StartWrite(p) ==
  /\ st[p].pc = "idle"
  /\ st[p].ncalls = 0
  /\ \E c \in {x \in CallsOf(variant) : x.op \in {"Update", "Delete"}} :
       /\ st' = [st EXCEPT ![p] = [InitSt EXCEPT !.call = c, !.pc = "loop"]]
       /\ gh' = GhStart(p, c)
  /\ UNCHANGED <<variant, dir, held, meant, log>>

\* The specification of callers that each make one writing call on a store
\* whose operations can fail.
NextFail ==
  \E p \in Procs :
    \/ StartWrite(p)
    \/ LoopTest(p)
    \/ Read(p)
    \/ ReadFails(p)
    \/ Apply(p)
    \/ ApplyFails(p)
    \/ Remove(p)
    \/ RemoveFails(p)
    \/ tmpFile(p)
    \/ tmpFileFails(p)
    \/ Stage(p)
    \/ StageFails(p)
    \/ Lock(p)
    \/ LockFails(p)
    \/ ReRead(p)
    \/ ReReadFails(p)
    \/ CheckRename(p)
    \/ RenameFails(p)
    \/ Unlock(p)
    \/ RemoveTmp(p)
    \/ DoReturn(p)

SpecFail == Init /\ [][NextFail]_vars

\* ------------------------------------------------------------- other keys
\* Keys the store accepts besides "k" (no key is rejected): "./k", and the
\* names the lock file and a temp file of "k" have.
PathKeys ==
  {<<"k">>, <<".", "/", "k">>, <<"k", "...lock">>,
   <<"k", "...tmp", ".", ToString(1)>>}

\* A caller starts its one call, an Update or a Delete of one of those keys,
\* while no other call runs.
StartPath(p) ==
  /\ st[p].pc = "idle"
  /\ st[p].ncalls = 0
  /\ \A q \in Procs : st[q].pc = "idle"
  /\ \E x \in CallsOf(variant), k \in PathKeys :
       /\ x.op \in {"Update", "Delete"}
       /\ st' = [st EXCEPT ![p] = [InitSt EXCEPT !.call = [x EXCEPT !.key = k],
                                                !.pc = "loop"]]
       /\ gh' = GhStart(p, [x EXCEPT !.key = k])
  /\ UNCHANGED <<variant, dir, held, meant, log>>

\* The specification of calls, one after the other, on those keys.
NextPath ==
  \E p \in Procs :
    \/ StartPath(p)
    \/ LoopTest(p)
    \/ Read(p)
    \/ Apply(p)
    \/ Remove(p)
    \/ tmpFile(p)
    \/ Stage(p)
    \/ Lock(p)
    \/ ReRead(p)
    \/ CheckRename(p)
    \/ Unlock(p)
    \/ RemoveTmp(p)
    \/ DoReturn(p)

SpecPath == Init /\ [][NextPath]_vars

\* -------------------------------------------------------------------- Open
\* The errors of Open.
ErrNotEmpty == "root not empty and cannot read .filedb"

OpenCall == [op |-> "Open", key |-> <<"k">>, doc |-> NilDoc, retries |-> 0]

\* A file in the root that is not of the store.
Foreign == <<"notes">>

\* The root directories Open is given: empty; holding a foreign file or a key
\* file and no marker; holding the marker alone or with an entry and its lock
\* file.
Roots ==
  {[n \in {} |-> Directory],
   [n \in {Foreign} |-> File(<<>>)],
   [n \in {keyPath(<<"k">>)} |-> File(Encode(dbEntry(1, <<0>>)))],
   [n \in {initPath} |-> Directory],
   [n \in {initPath, keyPath(<<"k">>), lockPath(<<"k">>)} |->
      IF n = initPath THEN Directory
      ELSE IF n = keyPath(<<"k">>) THEN File(Encode(dbEntry(1, <<0>>)))
      ELSE File(<<>>)]}

InitOpen ==
  /\ variant \in {"generic", "dynamic"}
  /\ dir \in Roots
  /\ held = {}
  /\ st = [p \in Procs |-> InitSt]
  /\ meant = [n \in {} |-> ZeroEntry]
  /\ log = <<>>
  /\ gh = [p \in Procs |-> InitGh]

\* A caller calls Open(root), as its first call and again after each of its
\* calls on the store.
StartOpen(p) ==
  /\ st[p].pc = "idle"
  /\ st[p].ncalls <= MaxCalls
  /\ st[p].call.op # "Open"
  /\ st' = [st EXCEPT ![p] = [InitSt EXCEPT !.call = OpenCall, !.pc = "open",
                               !.ncalls = st[p].ncalls, !.db = st[p].db]]
  /\ gh' = GhStart(p, OpenCall)
  /\ UNCHANGED <<variant, dir, held, meant, log>>

\* An Open that makes the marker whenever it is missing.
Open_always(p) ==
  /\ st[p].pc = "open"
  /\ dir' = IF initPath \in DOMAIN dir THEN dir ELSE Put(dir, initPath, Directory)
  /\ st' = [st EXCEPT ![p] = [@ EXCEPT !.pc = "idle", !.ncalls = @ + 1,
               !.db = TRUE, !.result = NoResult]]
  /\ UNCHANGED <<variant, held, meant, log, gh>>

\* Open(root): os.ReadDir(root); an empty root gets the marker by os.Mkdir, a
\* root with entries must pass os.Stat(initPath).  The caller keeps the DB it
\* had when the call fails.
Open(p) ==
  /\ st[p].pc = "open"
  /\ LET ok == DOMAIN dir = {} \/ initPath \in DOMAIN dir IN
       /\ dir' = IF DOMAIN dir = {} THEN Put(dir, initPath, Directory) ELSE dir
       /\ st' = [st EXCEPT ![p] = [@ EXCEPT !.pc = "idle", !.ncalls = @ + 1,
                    !.db = @ \/ ok,
                    !.result = [doc |-> NilDoc, keys |-> {},
                                err |-> IF ok THEN NilErr ELSE ErrNotEmpty]]]
  /\ UNCHANGED <<variant, held, meant, log, gh>>

\* A caller whose Open returned a DB calls Delete or an Update with unbounded
\* retries, on "k" or on the key ".filedb".
StartDbCall(p) ==
  /\ st[p].pc = "idle"
  /\ st[p].ncalls < MaxCalls
  /\ st[p].db
  /\ st[p].call.op = "Open"
  /\ \E x \in CallsOf(variant), k \in Keys \cup {initPath} :
       /\ x.op = "Delete" \/ (x.op = "Update" /\ x.retries < 0)
       /\ st' = [st EXCEPT ![p] = [InitSt EXCEPT !.call = [x EXCEPT !.key = k],
                    !.pc = "loop", !.ncalls = st[p].ncalls, !.db = TRUE]]
       /\ gh' = GhStart(p, [x EXCEPT !.key = k])
  /\ UNCHANGED <<variant, dir, held, meant, log>>

\* The specification of callers that open a root and then use the store.
NextOpen ==
  \E p \in Procs :
    \/ StartOpen(p)
    \/ Open(p)
    \/ StartDbCall(p)
    \/ LoopTest(p)
    \/ Read(p)
    \/ Apply(p)
    \/ Remove(p)
    \/ tmpFile(p)
    \/ Stage(p)
    \/ Lock(p)
    \/ ReRead(p)
    \/ CheckRename(p)
    \/ Unlock(p)
    \/ RemoveTmp(p)
    \/ DoReturn(p)

SpecOpen == InitOpen /\ [][NextOpen]_vars

\* ------------------------------------------------------------------ claims
\* The call of p has returned.
Returned(p) == st[p].pc = "idle" /\ st[p].ncalls > 0

\* Lines of the history of a key between two positions (exclusive).
Between(key, a, b) == {j \in (a + 1)..(b - 1) : log[j].key = key}

\* C1: read-modify-write atomicity.  Every commit is atomic with its own read:
\* the document given to apply is still the stored one at the rename, that is
\* no other commit and no removal of the key took effect between the attempt's
\* read and its rename.
C1_ReadModifyWriteAtomic ==
  \A n \in 1..Len(log) :
    log[n].kind = "commit" => Between(log[n].key, log[n].readAt, n) = {}

\* C2: no lost updates.  Once all M callers of Update(k, doc -> doc+1) have
\* returned, each returned without error and the stored document is M.
C2_NoLostUpdates ==
  (\A p \in Procs : Returned(p)) =>
    /\ \A p \in Procs : st[p].result.err = NilErr
    /\ Get(dir, <<"k">>) = [doc |-> <<NProcs>>, err |-> NilErr]

\* A returned call that stores a document (not Delete, Get or List).
Stored(p) == Returned(p) /\ st[p].call.op \in {"Update", "Set", "SetWithRetry"}

\* The history line before line n that is about the same key (0 when none).
Prev(n) ==
  LET s == {j \in 1..(n - 1) : log[j].key = log[n].key}
  IN IF s = {} THEN 0 ELSE CHOOSE j \in s : \A i \in s : i <= j

\* C3: conflict detection.  Two attempts on one key that read the same base
\* version, with no retry taken, end in exactly one success and one
\* ConcurrentModification; and the versions the commits carry are 1, 2, 3, ...
\* from the creation of the key on: none skipped, none duplicated.
C3_ConflictDetection ==
  /\ \A p, q \in Procs :
       ( /\ p # q /\ Stored(p) /\ Stored(q)
         /\ st[p].call.key = st[q].call.key
         /\ gh[p].attempts = 1 /\ gh[q].attempts = 1
         /\ gh[p].readAt = gh[q].readAt /\ st[p].old.version = st[q].old.version )
       => {st[p].result.err, st[q].result.err} = {NilErr, ErrConcurrentMod}
  /\ \A n \in 1..Len(log) :
       log[n].kind = "commit" =>
         log[n].staged = 1 + (IF Prev(n) = 0 THEN 0 ELSE log[Prev(n)].staged)

\* C4: retry bound.  Update with a finite retries n >= 0 runs a first attempt
\* and at most n retries, each after a conflict; it returns ConcurrentModification
\* exactly when n+1 attempts met a conflict; with n = 0 and no concurrent writer
\* it returns no error.
C4_RetryBound ==
  \A p \in Procs :
    (Returned(p) /\ st[p].call.op \in WriteOps /\ st[p].call.retries >= 0) =>
      /\ gh[p].attempts >= 1
      /\ gh[p].attempts <= st[p].call.retries + 1
      /\ gh[p].attempts <= gh[p].conflicts + 1
      /\ (st[p].result.err = ErrConcurrentMod) <=> (gh[p].conflicts = st[p].call.retries + 1)
      /\ (st[p].call.retries = 0 /\ gh[p].alone) => st[p].result.err = NilErr

\* C5: round trip.  With no concurrent writer on k, Set(k, d) returns no error
\* and a Get(k) that follows yields d.
C5_SetGetRoundTrip ==
  \A p \in Procs :
    (Returned(p) /\ st[p].call.op = "Set" /\ gh[p].alone) =>
      /\ st[p].result.err = NilErr
      /\ Get(dir, st[p].call.key) = [doc |-> st[p].call.doc, err |-> NilErr]

\* C6: Delete resets existence.  With no concurrent writer, Delete(k) returns
\* no error (also on a missing key) and a Get(k) that follows returns absent
\* with no error; a Set that follows the removal stores version 1.
C6_DeleteResets ==
  \A p \in Procs :
    /\ (Returned(p) /\ st[p].call.op = "Delete" /\ gh[p].alone) =>
         /\ st[p].result.err = NilErr
         /\ Get(dir, st[p].call.key) = [doc |-> NilDoc, err |-> NilErr]
    /\ ( /\ Returned(p) /\ st[p].call.op = "Set" /\ gh[p].alone
         /\ Len(log) >= 2
         /\ log[Len(log)].kind = "commit" /\ log[Len(log)].proc = p
         /\ log[Len(log)].key = st[p].call.key
         /\ Prev(Len(log)) # 0 /\ log[Prev(Len(log))].kind = "delete" )
       => get(dir, st[p].call.key).e.version = 1

\* C7: monotonic versioning.  On a key never removed, after N commits made
\* without overlap of one another, the version read back is N.
C7_VersionCountsCommits ==
  \A k \in Keys :
    LET mine == {n \in 1..Len(log) : log[n].key = k} IN
    ( /\ \A p \in Procs : ~Writing(p, k)
      /\ \A n \in mine : log[n].kind = "commit" /\ Between(k, log[n].readAt, n) = {} )
    => get(dir, k).e.version = Cardinality(mine)

\* C8: version stepping.  Every commit moves the version on disk from v, the
\* version on disk right before the rename, to v+1; every removal moves it to 0.
C8_VersionSteps ==
  \A n \in 1..Len(log) :
    IF log[n].kind = "commit"
      THEN log[n].after = log[n].before + 1
      ELSE log[n].after = 0

\* C9: listing excludes artifacts.  List returns names of keys only: no
\* temporary file, no lock file, no marker, no directory.
C9_ListOnlyKeys ==
  \A p \in Procs :
    (Returned(p) /\ st[p].call.op = "List") =>
      st[p].result.keys \subseteq {keyPath(k) : k \in Keys}

\* C10: atomic visibility.  A Get that runs while others commit returns, with
\* no error, the whole document of an entry the key held during the Get: the
\* one before a commit or the one after it.
C10_GetSeesCommitted ==
  \A p \in Procs :
    (Returned(p) /\ st[p].call.op = "Get") =>
      /\ st[p].result.err = NilErr
      /\ st[p].result.doc \in gh[p].seen

\* The renames and removals of the key's file made by caller p since the read
\* of its current attempt, and in the whole of its call when each caller makes
\* one call.
LinesSince(p, a) == {j \in (a + 1)..Len(log) : log[j].proc = p}

\* C11: no partial success.  An attempt of Update that ends in an error (of
\* apply, of an operation on the files, or ErrConcurrentMod) has neither
\* replaced nor removed the key's file, and neither has a call that returned an
\* error.
C11_NoPartialSuccess ==
  \A p \in Procs :
    /\ (st[p].pc \in {"unlock", "rmtmp", "doret"} /\ st[p].ret.err # NilErr)
         => LinesSince(p, gh[p].readAt) = {}
    /\ (Returned(p) /\ st[p].result.err # NilErr) => LinesSince(p, 0) = {}

\* A call returned the error of a failed rename while the key has a file that
\* another caller committed.
C11_Witness ==
  \E p \in Procs :
    /\ Returned(p) /\ st[p].result.err = ErrIO /\ st[p].result.doc # NilDoc
    /\ keyPath(st[p].call.key) \in DOMAIN dir

\* C12: only conflicts are retried.  The loop of Update starts another attempt
\* only after an attempt that detected a version conflict under the lock: an
\* attempt that ended with the error of apply, of a read or of another
\* operation is not followed by a further attempt, and its error is the one
\* the call returns.
C12_OnlyConflictsRetried ==
  \A p \in Procs :
    /\ gh[p].attempts <= gh[p].conflicts + 1
    /\ (Returned(p) /\ gh[p].attempts > gh[p].conflicts)
         => st[p].result.err = st[p].ret.err

\* The positions of an attempt from the creation of its temp file to the end
\* of its deferred calls; everywhere else a caller is between attempts, before
\* the staging of an attempt, or not in a call.
Staging == {"encode", "lock", "reread", "check", "unlock", "rmtmp"}

\* A name os.CreateTemp makes for one of the keys.
IsTmp(n) == \E k \in Keys, r \in Rnd : n = tmpName(k, r)

\* C13: no leaked artifacts or locks.  A caller whose call has returned (with
\* or without error), or that is between two attempts or before the staging of
\* one, holds no lock; and every temp file in the directory is the one of an
\* attempt that is still between its creation and its deferred removal.
C13_NoLeaks ==
  /\ \A p \in Procs : st[p].pc \notin Staging => \A x \in held : x[2] # p
  /\ \A n \in DOMAIN dir :
       IsTmp(n) => \E q \in Procs : st[q].f = n /\ st[q].pc \in Staging

\* A call whose attempt staged a file, took the lock and failed in the rename
\* has returned, while another caller's attempt holds the lock.
C13_Witness ==
  \E p \in Procs :
    /\ Returned(p) /\ st[p].result.err = ErrIO /\ st[p].result.doc # NilDoc
    /\ \E q \in Procs \ {p} : <<lockPath(st[p].call.key), q>> \in held

\* The attempt of p is between its lock acquisition and its lock release.
InWindow(p) == st[p].pc \in {"reread", "check", "unlock"}

\* C14: mutual exclusion of the verify-and-commit window.  No two attempts on
\* the same key are between lock acquisition and lock release at once, and the
\* holder of the key's lock is the attempt in the window.
C14_MutualExclusion ==
  \A p \in Procs :
    /\ InWindow(p) <=> <<lockPath(st[p].call.key), p>> \in held
    /\ \A q \in Procs \ {p} :
         st[p].call.key = st[q].call.key => ~(InWindow(p) /\ InWindow(q))

\* One attempt has passed the lock and is about to check and rename while
\* another, with its entry staged, waits for the same lock.
C14_Witness ==
  \E p \in Procs : \E q \in Procs \ {p} :
    /\ st[p].pc = "check" /\ st[q].pc = "lock"
    /\ st[p].call.key = st[q].call.key
    /\ st[q].f \in DOMAIN dir

\* The key had an entry file after the first a lines of the history (the store
\* starts without entries): the last of those lines on the key is a commit.
\* Its staged version is then at least 1.
ExistedAt(key, a) ==
  \E j \in 1..a :
    /\ log[j].key = key /\ log[j].kind = "commit"
    /\ \A i \in (j + 1)..a : log[i].key # key

\* C15: unlocked deletion is safe against concurrent writers.  An attempt that
\* read an existing entry (version >= 1) does not commit when a removal of the
\* key took effect between that read and its rename.
C15_DeletionSafe ==
  \A n \in 1..Len(log) :
    (log[n].kind = "commit" /\ ExistedAt(log[n].key, log[n].readAt))
      => \A j \in Between(log[n].key, log[n].readAt, n) : log[j].kind # "delete"

\* An attempt that ended with a detected version conflict ran while another
\* caller committed after its read.
ConflictHasCause ==
  \A p \in Procs :
    (st[p].pc \in {"unlock", "rmtmp", "doret"} /\ st[p].ret.err = ErrConcurrentMod)
      => \E j \in (gh[p].readAt + 1)..Len(log) :
           log[j].proc # p /\ log[j].kind = "commit"

\* Every caller's Update has returned without error.
AllReturned == \A p \in Procs : Returned(p) /\ st[p].result.err = NilErr

\* C16: progress with unbounded retries.  When every caller runs one Update
\* with unbounded retries on the same key, apply and the file operations do
\* not fail and every caller keeps being scheduled, every call eventually
\* returns without error, and an attempt ends with a conflict only when
\* another caller committed since its read.
C16_Progress == []ConflictHasCause /\ <>AllReturned

\* All the callers of SpecInc have returned and each has committed once.
C16_Witness ==
  /\ AllReturned
  /\ \A p \in Procs : \E j \in 1..Len(log) : log[j].proc = p /\ log[j].kind = "commit"

\* C17: entry round-trip through the store.  The file of a committed key
\* carries the version and the doc of the entry that was staged into it, and
\* db.get reads that entry back with exactly that version and that doc.
C17_EntryRoundTrip ==
  \A k \in Keys :
    (keyPath(k) \in DOMAIN meant /\ keyPath(k) \in DOMAIN dir)
      => /\ dir[keyPath(k)].data # <<>>
         /\ dir[keyPath(k)].data[1].version # <<>>
         /\ dir[keyPath(k)].data[1].doc # <<>>
         /\ get(dir, k) = [err |-> NilErr, e |-> meant[keyPath(k)]]

\* C18: the key-path mapping is injective and the artifact paths are disjoint
\* from the entry paths.  For the distinct keys k1, k2 of any two calls,
\* keyPath(k1) differs from keyPath(k2), from lockPath(k2) and from every temp
\* path of k2.
C18_PathsDisjoint ==
  \A p \in Procs : \A q \in Procs :
    LET k1 == st[p].call.key
        k2 == st[q].call.key
    IN (st[p].call.op # "none" /\ st[q].call.op # "none" /\ k1 # k2)
         => /\ keyPath(k1) # keyPath(k2)
            /\ keyPath(k1) # lockPath(k2)
            /\ \A r \in Rnd : keyPath(k1) # tmpName(k2, r)

C20_ResultErrorExclusive ==
  \A p \in Procs :
    Returned(p) =>
      /\ st[p].result.err # NilErr => st[p].result.doc = NilDoc
      /\ st[p].result.doc # NilDoc =>
           /\ st[p].result.err = NilErr
           /\ st[p].result.doc = st[p].newDoc
           /\ \E j \in LinesSince(p, gh[p].readAt) : log[j].kind = "commit"

====
